---- MODULE Spec2Model ----
(***************************************************************************)
(* A model of the memory-client SDK: the synchronous client                *)
(* (tinyhumansai/client.py), its thread-offloading facade                  *)
(* (tinyhumansai/async_client.py), the native asynchronous client          *)
(* (alphahuman_memory/async_client.py) and the LLM bridge                  *)
(* (tinyhumansai/llm.py).                                                  *)
(*                                                                         *)
(* A call is split where the code blocks on the network: the first step    *)
(* runs the method up to the HTTP request (or to the exception it raises   *)
(* before one), the second step takes the response the peer chose and runs *)
(* the method to its return or raise.                                      *)
(*                                                                         *)
(* Python values: an Optional[str] is a string or None (below); a number   *)
(* or a sequence that may be None is a tagged record.  Time is counted in  *)
(* days, not seconds: 100 * 365 * 24 * 60 * 60 does not fit TLC's          *)
(* integers.                                                               *)
(***************************************************************************)
EXTENDS Integers, Sequences, FiniteSets, TLC

VARIABLES
    client,   \* the client object in use: its class and its connection pool
    scope,    \* position in the caller's with / async with block
    calls,    \* the calls issued on the client, by slot
    wire,     \* every HTTP request issued so far, in order
    fin,      \* the arguments of the function applied on its own
    fout      \* its result

vars == <<client, scope, calls, wire, fin, fout>>

-----------------------------------------------------------------------------
(* Bounds of the model *)

MaxItems == 2          \* longest item list given to ingest
MaxServerItems == 3    \* longest item list the service returns
MaxChunks == 2         \* largest cap (num_chunks / max_items) tried
MaxCalls == 2          \* calls in flight at once on an async client
Today == 20000         \* time.time() at the call, in days

(* Program constants *)

HundredYears == 36500  \* 100 * 365 days: the future limit of a timestamp

-----------------------------------------------------------------------------
(* Python values *)

None == "<None>"

IsStr(x) == x # None

\* bool(x) of an Optional[str]
TruthyStr(x) == x # None /\ x # ""

\* str.strip() on the strings of the model
strip(s) ==
    CASE s = "  " -> ""
      [] s = " sk " -> "sk"
      [] s = " OpenAI " -> "OpenAI"
      [] s = " " -> ""
      [] OTHER -> s

\* str.lower() on the strings of the model
lower(s) ==
    CASE s = "OpenAI" -> "openai"
      [] s = "Google" -> "google"
      [] OTHER -> s

\* An optional number: None, a number, or a value of another type
TsNone == [tag |-> "none", v |-> 0]
Num(n) == [tag |-> "num", v |-> n]
TsStr == [tag |-> "str", v |-> 0]

\* bool(x) of such a value: a non-empty string is true, 0 and None are false
TruthyNum(x) ==
    \/ x.tag = "str"
    \/ x.tag = "num" /\ x.v # 0

\* a or b
PyOr(a, b) == IF TruthyNum(a) THEN a ELSE b

\* An optional sequence of strings, with the class of the sequence
KeysNone == [tag |-> "none", v |-> <<>>]
KeysOf(cls, s) == [tag |-> cls, v |-> s]

(* Exceptions.  `why` stands for the message of a built-in exception;      *)
(* status, msg and body are the fields of TinyHumanError / AlphahumanError *)
NoBody == [is |-> "none", text |-> "", payload |-> [shape |-> "none"]]

NoExc == [exc |-> "", why |-> "", status |-> 0, msg |-> "", body |-> NoBody]

Raise(cls, why) ==
    [exc |-> cls, why |-> why, status |-> 0, msg |-> "", body |-> NoBody]

IsValueError(e) == e.exc = "ValueError"

-----------------------------------------------------------------------------
(* Timestamp validation: tinyhumansai/client.py *)

_validate_timestamp(value, name, now) ==
    IF value.tag = "none" THEN NoExc
    ELSE IF value.tag # "num" THEN Raise("ValueError", name \o " must be a number")
    ELSE IF value.v < 0 THEN Raise("ValueError", name \o " must be non-negative")
    ELSE IF value.v > now + HundredYears
         THEN Raise("ValueError", name \o " is too far in the future")
    ELSE NoExc

\* _validate_timestamps looking at updated_at before created_at
_validate_timestamps_updated_first(created_at, updated_at, now) ==
    LET c == _validate_timestamp(created_at, "created_at", now)
        u == _validate_timestamp(updated_at, "updated_at", now)
    IN  IF u.exc # "" THEN u
        ELSE IF c.exc # "" THEN c
        ELSE IF created_at.tag # "none" /\ updated_at.tag # "none"
                /\ updated_at.v < created_at.v
             THEN Raise("ValueError", "updated_at must be >= created_at")
        ELSE NoExc

\* _validate_timestamps with the order test made strict
_validate_timestamps_strict(created_at, updated_at, now) ==
    LET c == _validate_timestamp(created_at, "created_at", now)
        u == _validate_timestamp(updated_at, "updated_at", now)
    IN  IF c.exc # "" THEN c
        ELSE IF u.exc # "" THEN u
        ELSE IF created_at.tag # "none" /\ updated_at.tag # "none"
                /\ updated_at.v <= created_at.v
             THEN Raise("ValueError", "updated_at must be >= created_at")
        ELSE NoExc

_validate_timestamps(created_at, updated_at, now) ==
    LET c == _validate_timestamp(created_at, "created_at", now)
        u == _validate_timestamp(updated_at, "updated_at", now)
    IN  IF c.exc # "" THEN c
        ELSE IF u.exc # "" THEN u
        ELSE IF created_at.tag # "none" /\ updated_at.tag # "none"
                /\ updated_at.v < created_at.v
             THEN Raise("ValueError", "updated_at must be >= created_at")
        ELSE NoExc

-----------------------------------------------------------------------------
(* HTTP responses and the response parser *)

Statuses == {200, 400, 500}

\* httpx.Response.is_success
is_success(status) == status >= 200 /\ status <= 299

NoData == [none |-> TRUE]

\* A body that is not JSON: response.json() raises
TextBody(t) ==
    [json |-> FALSE, text |-> t,
     payload |-> [shape |-> "none", has |-> {}, error |-> "", data |-> NoData]]

\* A JSON body that is not an object (an array, a string, a number, null)
ArrayBody ==
    [json |-> TRUE, text |-> "[]",
     payload |-> [shape |-> "array", has |-> {}, error |-> "", data |-> NoData]]

\* A JSON object with the keys `has`
ObjectBody(has, error, data) ==
    [json |-> TRUE, text |-> "{..}",
     payload |-> [shape |-> "object", has |-> has,
                  error |-> IF "error" \in has THEN error ELSE "",
                  data |-> IF "data" \in has THEN data ELSE NoData]]

Http(status, body) == [net |-> "ok", status |-> status, body |-> body]

\* The transport raised (timeout, connection refused): no response at all
NetErr == [net |-> "error", status |-> 0, body |-> TextBody("")]

NoResp == [net |-> "none", status |-> 0, body |-> TextBody("")]

\* TinyHumanError(message, status, body) / AlphahumanError(message, status, body)
ApiError(cls, message, status, body) ==
    [exc |-> cls, why |-> "", status |-> status, msg |-> message, body |-> body]

Parsed(raised, value) == [raised |-> raised, value |-> value]

\* _parse_response of both clients; cls is the error class the client raises
_parse_response(cls, response) ==
    IF ~response.body.json
    THEN Parsed(ApiError(cls, "HTTP " \o ToString(response.status) \o ": non-JSON response",
                         response.status,
                         [is |-> "text", text |-> response.body.text,
                          payload |-> [shape |-> "none"]]), NoData)
    ELSE LET payload == response.body.payload
         IN  IF ~is_success(response.status)
             THEN IF payload.shape # "object"
                  THEN Parsed(Raise("AttributeError", "get"), NoData)
                  ELSE Parsed(ApiError(cls,
                                       IF "error" \in payload.has
                                       THEN payload.error
                                       ELSE "HTTP " \o ToString(response.status),
                                       response.status,
                                       [is |-> "payload", text |-> "",
                                        payload |-> payload]), NoData)
             ELSE IF payload.shape # "object"
             THEN Parsed(Raise("TypeError", "indices must be integers"), NoData)
             ELSE IF "data" \notin payload.has
             THEN Parsed(Raise("KeyError", "data"), NoData)
             ELSE Parsed(NoExc, payload.data)

-----------------------------------------------------------------------------
(* Requests *)

NoJson == [none |-> TRUE]

\* via: "client" is the client's own transport (self._http, base URL and
\* bearer token set at construction), "llm" a transport opened for one call
Req(via, method, url, params, json) ==
    [via |-> via, method |-> method, url |-> url, params |-> params, json |-> json,
     headers |-> {}]

NoReq == Req("", "", "", <<>>, NoJson)

\* What the part of a method before its first network read comes to:
\* an exception, or one request sent
Fail(e) == [raised |-> e, send |-> FALSE, req |-> NoReq]
Send(r) == [raised |-> NoExc, send |-> TRUE, req |-> r]

\* What the part of a method after a response comes to: an exception, a
\* returned value, or (recall_with_llm) a further request
NoValue == [none |-> TRUE]
Return(v) == [raised |-> NoExc, send |-> FALSE, req |-> NoReq, value |-> v]
Throw(e) == [raised |-> e, send |-> FALSE, req |-> NoReq, value |-> NoValue]
Again(r) == [raised |-> NoExc, send |-> TRUE, req |-> r, value |-> NoValue]

-----------------------------------------------------------------------------
(* Memory items: tinyhumansai/types.py, alphahuman_memory/types.py *)

\* The fields of the MemoryItem dataclass (the same in both packages)
MemoryItemFields == {"key", "content", "namespace", "metadata"}

\* MemoryItem(key, content, namespace="default", metadata={})
MemoryItem(key, content, namespace) ==
    [kind |-> "MemoryItem", has |-> MemoryItemFields,
     key |-> key, content |-> content, namespace |-> namespace, metadata |-> "{}",
     createdAt |-> TsNone, created_at |-> TsNone,
     updatedAt |-> TsNone, updated_at |-> TsNone]

\* A dict with the keys `has` and the timestamps given (TsNone: key absent)
DictItem(has, key, cAt, c_at, uAt, u_at) ==
    [kind |-> "dict", has |-> has,
     key |-> key, content |-> "A", namespace |-> "p", metadata |-> "{m}",
     createdAt |-> cAt, created_at |-> c_at,
     updatedAt |-> uAt, updated_at |-> u_at]

\* A value that is neither
OtherItem == [DictItem({}, "", TsNone, TsNone, TsNone, TsNone) EXCEPT !.kind = "str"]

\* One canonical entry of the POST body
Entry(key, content, namespace, metadata, created_at, updated_at) ==
    [has |-> {"key", "content", "namespace", "metadata"}
             \cup (IF created_at.tag # "none" THEN {"createdAt"} ELSE {})
             \cup (IF updated_at.tag # "none" THEN {"updatedAt"} ELSE {}),
     key |-> key, content |-> content, namespace |-> namespace,
     metadata |-> metadata, createdAt |-> created_at, updatedAt |-> updated_at]

NoEntry == Entry("", "", "", "", TsNone, TsNone)

\* The loop body giving a dict without 'namespace' the namespace "default"
normalize_item_default_namespace(item, now) ==
    IF item.kind = "MemoryItem"
    THEN IF "created_at" \notin item.has
         THEN [raised |-> Raise("AttributeError", "created_at"), entry |-> NoEntry]
         ELSE LET v == _validate_timestamps(item.created_at, item.updated_at, now)
              IN  IF v.exc # "" THEN [raised |-> v, entry |-> NoEntry]
                  ELSE [raised |-> NoExc,
                        entry |-> Entry(item.key, item.content, item.namespace,
                                        item.metadata, item.created_at, item.updated_at)]
    ELSE IF item.kind = "dict"
    THEN LET created_at == PyOr(item.createdAt, item.created_at)
             updated_at == PyOr(item.updatedAt, item.updated_at)
             v == _validate_timestamps(created_at, updated_at, now)
         IN  IF v.exc # "" THEN [raised |-> v, entry |-> NoEntry]
             ELSE IF "key" \notin item.has
             THEN [raised |-> Raise("KeyError", "key"), entry |-> NoEntry]
             ELSE IF "content" \notin item.has
             THEN [raised |-> Raise("KeyError", "content"), entry |-> NoEntry]
             ELSE [raised |-> NoExc,
                   entry |-> Entry(item.key, item.content,
                                   IF "namespace" \in item.has THEN item.namespace
                                   ELSE "default",
                                   IF "metadata" \in item.has THEN item.metadata ELSE "{}",
                                   created_at, updated_at)]
    ELSE [raised |-> Raise("TypeError", "items must be MemoryItem or dict"),
          entry |-> NoEntry]

\* The body of the loop of ingest_memories for one item
normalize_item(item, now) ==
    IF item.kind = "MemoryItem"
    THEN IF "created_at" \notin item.has
         THEN [raised |-> Raise("AttributeError", "created_at"), entry |-> NoEntry]
         ELSE LET v == _validate_timestamps(item.created_at, item.updated_at, now)
              IN  IF v.exc # "" THEN [raised |-> v, entry |-> NoEntry]
                  ELSE [raised |-> NoExc,
                        entry |-> Entry(item.key, item.content, item.namespace,
                                        item.metadata, item.created_at, item.updated_at)]
    ELSE IF item.kind = "dict"
    THEN LET created_at == PyOr(item.createdAt, item.created_at)
             updated_at == PyOr(item.updatedAt, item.updated_at)
             v == _validate_timestamps(created_at, updated_at, now)
         IN  IF v.exc # "" THEN [raised |-> v, entry |-> NoEntry]
             ELSE IF "namespace" \notin item.has
             THEN [raised |-> Raise("ValueError", "items: each dict must include 'namespace'"),
                   entry |-> NoEntry]
             ELSE IF "key" \notin item.has
             THEN [raised |-> Raise("KeyError", "key"), entry |-> NoEntry]
             ELSE IF "content" \notin item.has
             THEN [raised |-> Raise("KeyError", "content"), entry |-> NoEntry]
             ELSE [raised |-> NoExc,
                   entry |-> Entry(item.key, item.content, item.namespace,
                                   IF "metadata" \in item.has THEN item.metadata ELSE "{}",
                                   created_at, updated_at)]
    ELSE [raised |-> Raise("TypeError", "items must be MemoryItem or dict"),
          entry |-> NoEntry]

\* The loop leaving out an item that raises and going on with the next
RECURSIVE normalize_skipping(_, _, _, _)
normalize_skipping(items, i, acc, now) ==
    IF i > Len(items) THEN [raised |-> NoExc, normalized |-> acc]
    ELSE LET r == normalize_item(items[i], now)
         IN  IF r.raised.exc # "" THEN normalize_skipping(items, i + 1, acc, now)
             ELSE normalize_skipping(items, i + 1, Append(acc, r.entry), now)

\* The loop of ingest_memories: stops at the first item that raises
RECURSIVE normalize(_, _, _, _)
normalize(items, i, acc, now) ==
    IF i > Len(items) THEN [raised |-> NoExc, normalized |-> acc]
    ELSE LET r == normalize_item(items[i], now)
         IN  IF r.raised.exc # "" THEN [raised |-> r.raised, normalized |-> acc]
             ELSE normalize(items, i + 1, Append(acc, r.entry), now)

-----------------------------------------------------------------------------
(* TinyHumanMemoryClient: each method up to its request *)

ingest_memories(items, now) ==
    IF Len(items) = 0
    THEN Fail(Raise("ValueError", "items must be a non-empty list"))
    ELSE LET n == normalize(items, 1, <<>>, now)
         IN  IF n.raised.exc # "" THEN Fail(n.raised)
             ELSE Send(Req("client", "POST", "/memory", <<>>, [items |-> n.normalized]))

\* ingest_memory(item=...)
ingest_memory(item, now) == ingest_memories(<<item>>, now)

\* The query parameters keys[] of a sequence of keys
KeyParams(ks) == [i \in 1..Len(ks) |-> <<"keys[]", ks[i]>>]

recall_memory(a) ==
    IF a.num_chunks < 1
    THEN Fail(Raise("ValueError", "num_chunks must be >= 1"))
    ELSE Send(Req("client", "GET", "/memory",
                  <<<<"namespace", a.namespace>>, <<"prompt", a.prompt>>,
                    <<"limit", ToString(a.num_chunks)>>>>
                  \o (IF TruthyStr(a.key) THEN <<<<"key", a.key>>>> ELSE <<>>)
                  \o (IF a.keys.tag # "none" /\ Len(a.keys.v) > 0
                      THEN KeyParams(a.keys.v) ELSE <<>>),
                  NoJson))

\* The body of a DELETE
DeleteBody(has, namespace, key, keys) ==
    [has |-> has, namespace |-> namespace, key |-> key, keys |-> keys]

delete_memory(a) ==
    LET has_key == IsStr(a.key) /\ a.key # ""
        has_keys == a.keys.tag \in {"list", "tuple"} /\ Len(a.keys.v) > 0
    IN  IF ~has_key /\ ~has_keys /\ ~a.delete_all
        THEN Fail(Raise("ValueError", "Provide key, keys, or set delete_all=True"))
        ELSE Send(Req("client", "DELETE", "/memory", <<>>,
                      DeleteBody({"namespace"}
                                 \cup (IF a.key # None THEN {"key"} ELSE {})
                                 \cup (IF a.keys.tag # "none" THEN {"keys"} ELSE {})
                                 \cup (IF a.delete_all THEN {"deleteAll"} ELSE {}),
                                 a.namespace, a.key, a.keys.v)))

-----------------------------------------------------------------------------
(* TinyHumanMemoryClient: each method from the response to its return *)

Min(a, b) == IF a < b THEN a ELSE b

\* items[:n] for n >= 1
Slice(items, n) == SubSeq(items, 1, Min(n, Len(items)))

\* sep.join(parts) with the separator after every part
RECURSIVE join_trailing(_, _)
join_trailing(sep, parts) ==
    IF Len(parts) = 0 THEN ""
    ELSE parts[1] \o sep \o join_trailing(sep, Tail(parts))

\* sep.join(parts)
RECURSIVE join(_, _)
join(sep, parts) ==
    IF Len(parts) = 0 THEN ""
    ELSE IF Len(parts) = 1 THEN parts[1]
    ELSE parts[1] \o sep \o join(sep, Tail(parts))

\* An item as the service returns it
ServerItem(key, content, namespace) ==
    [key |-> key, content |-> content, namespace |-> namespace]

\* ReadMemoryItem(key=item["key"], ...)
ReadMemoryItem(item) ==
    [key |-> item.key, content |-> item.content, namespace |-> item.namespace,
     metadata |-> "{}", created_at |-> "", updated_at |-> ""]

ReadItems(items) == [i \in 1..Len(items) |-> ReadMemoryItem(items[i])]

\* f"{header}\n{it.content}"
context_part(it) == "[" \o it.namespace \o ":" \o it.key \o "]" \o "\n" \o it.content

GetContextResponse(items) ==
    [context |-> join("\n\n", [i \in 1..Len(items) |-> context_part(items[i])]),
     items |-> items, count |-> Len(items)]

\* recall_memory after _get returned data
recall_memory_return(a, data) ==
    Return(GetContextResponse(Slice(ReadItems(data.items), a.num_chunks)))

\* ingest_memories reporting no errors whatever the service counted
ingest_memories_return_noerrors(data) ==
    Return([ingested |-> data.ingested, updated |-> data.updated, errors |-> 0])

\* ingest_memories after _send returned data
ingest_memories_return(data) ==
    Return([ingested |-> data.ingested, updated |-> data.updated, errors |-> data.errors])

\* delete_memory after _send returned data
delete_memory_return(data) == Return([deleted |-> data.deleted])

-----------------------------------------------------------------------------
(* The LLM bridge: tinyhumansai/llm.py *)

SUPPORTED_LLM_PROVIDERS == {"openai", "anthropic", "google"}

LlmBody(has, model, system, messages, max_tokens, temperature) ==
    [has |-> has, model |-> model, system |-> system, messages |-> messages,
     max_tokens |-> max_tokens, temperature |-> temperature]

\* The optional generation fields that are set
GenFields(a) ==
    (IF a.max_tokens.tag # "none" THEN {"max_tokens"} ELSE {})
    \cup (IF a.temperature.tag # "none" THEN {"temperature"} ELSE {})

\* The message list of the OpenAI shape
ChatMessages(prompt, context) ==
    (IF context # "" THEN <<[role |-> "system", content |-> context]>> ELSE <<>>)
    \o <<[role |-> "user", content |-> prompt]>>

LlmReq(url, headers, body) ==
    [Req("llm", "POST", url, <<>>, body) EXCEPT !.headers = headers]

_query_openai(a, api_key, context) ==
    LlmReq("https://api.openai.com/v1/chat/completions",
           {<<"Authorization", "Bearer " \o api_key>>},
           LlmBody({"model", "messages"} \cup GenFields(a), a.model, "",
                   ChatMessages(a.prompt, context), a.max_tokens, a.temperature))

_query_anthropic(a, api_key, context) ==
    LlmReq("https://api.anthropic.com/v1/messages",
           {<<"x-api-key", api_key>>, <<"anthropic-version", "2023-06-01">>},
           LlmBody({"model", "max_tokens", "messages"}
                   \cup (IF context # "" THEN {"system"} ELSE {})
                   \cup (IF a.temperature.tag # "none" THEN {"temperature"} ELSE {}),
                   a.model, context,
                   <<[role |-> "user", content |-> a.prompt]>>,
                   IF a.max_tokens.tag # "none" THEN a.max_tokens ELSE Num(1024),
                   a.temperature))

_query_google(a, api_key, context) ==
    LlmReq("https://generativelanguage.googleapis.com/v1beta/models/" \o a.model
           \o ":generateContent?key=" \o api_key,
           {},
           LlmBody({"contents"}
                   \cup (IF GenFields(a) # {} THEN {"generationConfig"} ELSE {}),
                   "", "",
                   <<[role |-> "part",
                      content |-> IF context # ""
                                  THEN "Context:\n" \o context \o "\n\nUser: " \o a.prompt
                                  ELSE a.prompt]>>,
                   a.max_tokens, a.temperature))

_query_custom(a, api_key, context) ==
    LlmReq(a.url,
           {<<"Authorization", "Bearer " \o api_key>>},
           LlmBody({"model", "messages"} \cup GenFields(a), a.model, "",
                   ChatMessages(a.prompt, context), a.max_tokens, a.temperature))

\* _query_llm: the dispatch on the provider tag
_query_llm(a, provider, api_key, context) ==
    IF provider = "openai" THEN Send(_query_openai(a, api_key, context))
    ELSE IF provider = "anthropic" THEN Send(_query_anthropic(a, api_key, context))
    ELSE IF provider = "google" THEN Send(_query_google(a, api_key, context))
    ELSE Fail(Raise("ValueError", "Unsupported provider"))

\* llm.recall_with_llm testing the provider tag before it looks at url
llm_recall_with_llm_provider_first(a, context) ==
    IF a.api_key = "" \/ strip(a.api_key) = ""
    THEN Fail(Raise("ValueError", "api_key is required for recall_with_llm"))
    ELSE LET api_key == strip(a.api_key)
             provider == lower(strip(a.provider))
         IN  IF provider \notin SUPPORTED_LLM_PROVIDERS
             THEN Fail(Raise("ValueError",
                             "provider must be one of ('openai', 'anthropic', 'google')"))
             ELSE IF TruthyStr(a.url)
             THEN Send(_query_custom(a, api_key, context))
             ELSE _query_llm(a, provider, api_key, context)

\* llm.recall_with_llm up to the provider request
llm_recall_with_llm(a, context) ==
    IF a.api_key = "" \/ strip(a.api_key) = ""
    THEN Fail(Raise("ValueError", "api_key is required for recall_with_llm"))
    ELSE LET api_key == strip(a.api_key)
         IN  IF TruthyStr(a.url)
             THEN Send(_query_custom(a, api_key, context))
             ELSE LET provider == lower(strip(a.provider))
                  IN  IF provider \notin SUPPORTED_LLM_PROVIDERS
                      THEN Fail(Raise("ValueError",
                                      "provider must be one of ('openai', 'anthropic', 'google')"))
                      ELSE _query_llm(a, provider, api_key, context)

\* The provider's name in error messages
ProviderLabel(a) ==
    IF TruthyStr(a.url) THEN "Custom provider"
    ELSE LET provider == lower(strip(a.provider))
         IN  CASE provider = "openai" -> "OpenAI"
               [] provider = "anthropic" -> "Anthropic"
               [] OTHER -> "Google"

\* A provider response body: not JSON, a JSON non-object, or an object whose
\* `error` is absent, an object (with or without `message`) or a string,
\* whose top-level `message` may be set, and which may hold a reply
LlmBodyOf(json, shape, error, errmsg, message, reply, text) ==
    [json |-> json, shape |-> shape, error |-> error, errmsg |-> errmsg,
     message |-> message, reply |-> reply, text |-> text]

\* _raise_llm_error preferring the top-level `message` to `error.message`
llm_error_message_toplevel_first(body) ==
    IF ~body.json \/ body.shape # "object" THEN body.text
    ELSE IF body.error = "string" THEN body.text
    ELSE IF body.message # None THEN body.message
    ELSE IF body.error = "object" /\ body.errmsg # None THEN body.errmsg
    ELSE body.text

\* _raise_llm_error: the message of the error it raises
llm_error_message(body) ==
    IF ~body.json \/ body.shape # "object" THEN body.text
    ELSE IF body.error = "string" THEN body.text
    ELSE IF body.error = "object" /\ body.errmsg # None THEN body.errmsg
    ELSE IF body.message # None THEN body.message
    ELSE body.text

\* _raise_llm_error, then the extraction of the reply text
llm_return(a, response) ==
    IF ~is_success(response.status)
    THEN Throw(ApiError("TinyHumanError",
                        ProviderLabel(a) \o " API error: "
                        \o llm_error_message(response.body),
                        response.status, NoBody))
    ELSE IF ~response.body.json THEN Throw(Raise("JSONDecodeError", "r.json()"))
    ELSE IF response.body.shape # "object" THEN Throw(Raise("TypeError", "data[..]"))
    ELSE IF response.body.reply = None THEN Throw(Raise("KeyError", "reply"))
    ELSE Return([text |-> response.body.reply])

\* TinyHumanMemoryClient.recall_with_llm up to its first request
recall_with_llm(a) ==
    IF strip(a.context) = ""
    THEN IF ~TruthyStr(a.namespace)
         THEN Fail(Raise("ValueError", "When context is not provided, pass namespace"))
         ELSE recall_memory([namespace |-> a.namespace, prompt |-> a.prompt,
                             num_chunks |-> a.num_chunks, key |-> None,
                             keys |-> KeysNone])
    ELSE llm_recall_with_llm(a, a.context)

\* TinyHumanMemoryClient.recall_with_llm after recall_memory returned ctx
recall_with_llm_return(a, ctx) ==
    LET r == llm_recall_with_llm(a, ctx.context)
    IN  IF r.send THEN Again(r.req) ELSE Throw(r.raised)

-----------------------------------------------------------------------------
(* AsyncTinyHumanMemoryClient: asyncio.to_thread on the wrapped client *)

\* The keyword parameters of the methods of TinyHumanMemoryClient
SyncParams ==
    [ingest_memory |-> {"item"},
     ingest_memories |-> {"items"},
     recall_memory |-> {"namespace", "prompt", "num_chunks", "key", "keys"},
     delete_memory |-> {"namespace", "key", "keys", "delete_all"},
     recall_with_llm |-> {"prompt", "provider", "model", "api_key", "context",
                          "namespace", "num_chunks", "max_tokens", "temperature", "url"},
     close |-> {}]

\* Those without a default
SyncRequired ==
    [ingest_memory |-> {"item"},
     ingest_memories |-> {"items"},
     recall_memory |-> {"namespace", "prompt"},
     delete_memory |-> {"namespace"},
     recall_with_llm |-> {"prompt", "api_key"},
     close |-> {}]

\* Looking the method up on the wrapped client and binding the keywords
bind(method, kwargs) ==
    IF method \notin DOMAIN SyncParams
    THEN Raise("AttributeError", method)
    ELSE IF kwargs \ SyncParams[method] # {}
    THEN Raise("TypeError", "unexpected keyword argument")
    ELSE IF SyncRequired[method] \ kwargs # {}
    THEN Raise("TypeError", "missing keyword-only argument")
    ELSE NoExc

\* The wrapped method, run on the keywords given
sync_call(method, a, now) ==
    CASE method = "ingest_memory" -> ingest_memory(a.item, now)
      [] method = "ingest_memories" -> ingest_memories(a.items, now)
      [] method = "recall_memory" -> recall_memory(a)
      [] method = "delete_memory" -> delete_memory(a)
      [] OTHER -> Fail(Raise("AttributeError", method))

\* asyncio.to_thread(self._sync_client.<method>, **a)
to_thread(method, a, now) ==
    LET b == bind(method, DOMAIN a)
    IN  IF b.exc # "" THEN Fail(b) ELSE sync_call(method, a, now)

async_ingest_memory(a, now) == to_thread("ingest_memory", a, now)

async_get_context(a, now) == to_thread("get_context", a, now)

async_delete_memory(a, now) == to_thread("delete_memory", a, now)

-----------------------------------------------------------------------------
(* AsyncAlphahumanMemoryClient: each method up to its request *)

\* The POST body of ingest_memory: the four fields of every item
AlphaEntries(items) ==
    [i \in 1..Len(items) |->
        Entry(items[i].key, items[i].content, items[i].namespace,
              items[i].metadata, TsNone, TsNone)]

alpha_ingest_memory(request) ==
    IF Len(request.items) = 0
    THEN Fail(Raise("ValueError", "items must be a non-empty list"))
    ELSE IF \E i \in 1..Len(request.items) : request.items[i].kind # "MemoryItem"
    THEN Fail(Raise("AttributeError", "key"))
    ELSE Send(Req("client", "POST", "/v1/memory", <<>>,
                  [items |-> AlphaEntries(request.items)]))

\* read_memory(request): request is None or a ReadMemoryRequest
alpha_read_memory(request) ==
    Send(Req("client", "GET", "/v1/memory",
             IF ~request.given THEN <<>>
             ELSE (IF TruthyStr(request.key) THEN <<<<"key", request.key>>>> ELSE <<>>)
                  \o (IF request.keys.tag # "none" /\ Len(request.keys.v) > 0
                      THEN KeyParams(request.keys.v) ELSE <<>>)
                  \o (IF TruthyStr(request.namespace)
                      THEN <<<<"namespace", request.namespace>>>> ELSE <<>>),
             NoJson))

alpha_delete_memory(request) ==
    LET has_key == IsStr(request.key) /\ request.key # ""
        has_keys == request.keys.tag = "list" /\ Len(request.keys.v) > 0
    IN  IF ~has_key /\ ~has_keys /\ ~request.delete_all
        THEN Fail(Raise("ValueError", "Provide key, keys, or set delete_all=True"))
        ELSE Send(Req("client", "DELETE", "/v1/memory", <<>>,
                      DeleteBody((IF request.key # None THEN {"key"} ELSE {})
                                 \cup (IF request.keys.tag # "none" THEN {"keys"} ELSE {})
                                 \cup (IF request.namespace # None
                                       THEN {"namespace"} ELSE {})
                                 \cup (IF request.delete_all THEN {"deleteAll"} ELSE {}),
                                 request.namespace, request.key, request.keys.v)))

\* read_memory after _get returned data
alpha_read_memory_return(data) ==
    Return([items |-> ReadItems(data.items), count |-> data.count])

-----------------------------------------------------------------------------
(* The inputs tried *)

DictKeys == {"key", "content", "namespace", "metadata"}

\* The items an ingest list is drawn from
Items(now) ==
    { DictItem(DictKeys, "k1", TsNone, TsNone, TsNone, TsNone),
      DictItem(DictKeys, "k2", TsNone, Num(now), TsNone, Num(now)),
      DictItem(DictKeys, "k1", TsNone, Num(now), TsNone, Num(now - 1)),
      DictItem(DictKeys, "k1", Num(-1), TsNone, TsNone, TsNone),
      DictItem(DictKeys, "k1", TsNone, Num(0), TsNone, TsNone),
      DictItem(DictKeys, "k1", Num(0), TsNone, TsNone, TsNone),
      DictItem(DictKeys, "k1", TsNone, TsNone, TsStr, TsNone),
      DictItem(DictKeys \ {"namespace"}, "k1", TsNone, TsNone, TsNone, TsNone),
      [DictItem(DictKeys, "k1", TsNone, TsNone, TsNone, TsNone)
          EXCEPT !.namespace = "default"],
      DictItem(DictKeys \ {"key"}, "k1", TsNone, TsNone, TsNone, TsNone),
      DictItem(DictKeys \ {"content"}, "k1", TsNone, TsNone, TsNone, TsNone),
      MemoryItem("k1", "A", "default"),
      OtherItem }

SeqsUpTo(S, n) == UNION { [1..k -> S] : k \in 0..n }

ItemLists(now) == SeqsUpTo(Items(now), MaxItems)

KeysInputs ==
    { KeysNone, KeysOf("list", <<>>), KeysOf("list", <<"k1", "k2">>) }

RecallInputs ==
    [namespace : {"p"}, prompt : {"q"}, num_chunks : 0..MaxChunks,
     key : {None, "", "k1"}, keys : KeysInputs]

\* keys as the annotation Optional[Sequence[str]] admits them: a list, a
\* tuple, or a sequence of another class (a deque, a range, a str)
DeleteKeysInputs ==
    { KeysNone, KeysOf("list", <<>>), KeysOf("list", <<"k1">>),
      KeysOf("tuple", <<"k1">>), KeysOf("deque", <<"k1">>) }

DeleteInputs(namespaces, keys) ==
    [namespace : namespaces, key : {None, "", "k1"}, keys : keys,
     delete_all : BOOLEAN]

\* With a context given, namespace and num_chunks are not read
LlmInputs ==
    [prompt : {"q"}, provider : {"openai", " OpenAI ", "anthropic", "google", "unknown", ""},
     model : {"m"}, api_key : {" sk ", "  ", ""}, context : {"ctx"},
     namespace : {None}, num_chunks : {MaxChunks},
     max_tokens : {TsNone, Num(5)}, temperature : {TsNone},
     url : {None, "http://u"}]
    \cup
    [prompt : {"q"}, provider : {"openai", " OpenAI ", "anthropic", "google", "unknown", ""},
     model : {"m"}, api_key : {" sk ", "  ", ""}, context : {""},
     namespace : {None, "p"}, num_chunks : {0, MaxChunks},
     max_tokens : {TsNone, Num(5)}, temperature : {TsNone},
     url : {None, "http://u"}]

GetContextInputs ==
    [key : {None, "k1"}, keys : KeysInputs, namespace : {None, "p"},
     max_items : {TsNone} \cup {Num(n) : n \in 1..MaxChunks}]

ReadInputs ==
    {[given |-> FALSE, key |-> None, keys |-> KeysNone, namespace |-> None]}
    \cup [given : {TRUE}, key : {None, "k1"}, keys : KeysInputs,
          namespace : {None, "p"}]

(* The responses tried *)

ServerItems == { ServerItem("k1", "A", "p"), ServerItem("k2", "B", "p") }

ItemsData ==
    { [items |-> s, count |-> Len(s)] : s \in SeqsUpTo(ServerItems, MaxServerItems) }

\* The results tried under recall_with_llm, which reads their context only
ContextData == { d \in ItemsData : d.count <= 1 }

IngestData == [ingested : 0..1, updated : 0..1, errors : 0..1]

DeleteData == { [deleted |-> 0], [deleted |-> 2] }

Bodies(Data) ==
    { TextBody("<html>"), TextBody(""), ArrayBody,
      ObjectBody({}, "", NoData), ObjectBody({"error"}, "x", NoData) }
    \cup { ObjectBody({"data"}, "", d) : d \in Data }

ResponsesOf(Data) ==
    {NetErr} \cup { Http(s, b) : s \in Statuses, b \in Bodies(Data) }

\* The responses to the request of a memory operation
Responses(op) ==
    CASE op \in {"ingest_memory", "ingest_memories"} -> ResponsesOf(IngestData)
      [] op = "delete_memory" -> ResponsesOf(DeleteData)
      [] op = "recall_with_llm" -> ResponsesOf(ContextData)
      [] OTHER -> ResponsesOf(ItemsData)

LlmBodies ==
    { LlmBodyOf(FALSE, "none", "absent", None, None, None, "oops"),
      LlmBodyOf(TRUE, "array", "absent", None, None, None, "[]"),
      LlmBodyOf(TRUE, "object", "absent", None, None, "hi", "{reply}"),
      LlmBodyOf(TRUE, "object", "absent", None, None, None, "{}"),
      LlmBodyOf(TRUE, "object", "object", "bad key", "m2", None, "{error:{message}}"),
      LlmBodyOf(TRUE, "object", "object", None, "m2", None, "{error:{},message}"),
      LlmBodyOf(TRUE, "object", "string", None, "m2", None, "{error:str}") }

LlmResponses ==
    {[NetErr EXCEPT !.body = LlmBodyOf(FALSE, "none", "absent", None, None, None, "")]}
    \cup { Http(s, b) : s \in Statuses, b \in LlmBodies }

-----------------------------------------------------------------------------
(* The state *)

Sync == "TinyHumanMemoryClient"
Async == "AsyncTinyHumanMemoryClient"
Alpha == "AsyncAlphahumanMemoryClient"

\* The error class a client raises
ErrorClass(cls) == IF cls = Alpha THEN "AlphahumanError" ELSE "TinyHumanError"

\* The client after __init__: the pool is open; the default headers of its
\* transport carry the token (and the model id, except in AsyncAlphahuman)
NewClient(cls) ==
    [cls |-> cls, http |-> "open",
     headers |-> {<<"Authorization", "Bearer T">>}
                 \cup (IF cls = Alpha THEN {} ELSE {<<"X-Model-Id", "M">>})]

NoClient == [cls |-> "", http |-> "none", headers |-> {}]

NoOut == [raised |-> NoExc, value |-> NoValue]

Idle ==
    [pc |-> "idle", op |-> "", a |-> [none |-> TRUE], now |-> 0,
     reqs |-> <<>>, resps |-> <<>>, out |-> NoOut]

NoFn == [fn |-> ""]
NoFnOut == [done |-> FALSE]

\* A slot no call is issued in
Off == [Idle EXCEPT !.pc = "off"]

Slots == 1..MaxCalls

\* The requests call c has issued
NReq(c) == Len(calls[c].reqs)

\* Every request, the provider's too, given the default headers of the
\* client's transport
OnWire_shared_transport(req) == [req EXCEPT !.headers = @ \cup client.headers]

\* A request as the transport that carries it sends it: self._http adds its
\* default headers, the httpx.Client of the LLM bridge has none
OnWire(req) ==
    IF req.via = "client" THEN [req EXCEPT !.headers = client.headers] ELSE req

\* A call can be issued in slot c: on a client that is not closed
Ready(c) ==
    /\ calls[c].pc = "idle"
    /\ client.http = "open"

\* The first step of a call: `step` is what the method came to
Begin(c, op, a, now, step) ==
    /\ calls' = [calls EXCEPT ![c] =
                   [pc |-> IF step.send THEN "wait" ELSE "done",
                    op |-> op, a |-> a, now |-> now,
                    reqs |-> IF step.send THEN <<OnWire(step.req)>> ELSE <<>>,
                    resps |-> <<>>,
                    out |-> [raised |-> step.raised, value |-> NoValue]]]
    /\ wire' = IF step.send THEN Append(wire, [slot |-> c, req |-> OnWire(step.req)])
               ELSE wire
    /\ UNCHANGED <<client, scope, fin, fout>>

\* A later step: the response arrived and the method ran on to `r`
Resume(c, response, r) ==
    /\ calls' = [calls EXCEPT ![c] =
                   [@ EXCEPT !.pc = IF r.send THEN "wait" ELSE "done",
                             !.reqs = IF r.send THEN Append(@, OnWire(r.req)) ELSE @,
                             !.resps = Append(@, response),
                             !.out = [raised |-> r.raised, value |-> r.value]]]
    /\ wire' = IF r.send THEN Append(wire, [slot |-> c, req |-> OnWire(r.req)])
               ELSE wire
    /\ UNCHANGED <<client, scope, fin, fout>>

-----------------------------------------------------------------------------
(* The transport helpers: the request was sent, `response` is what came *)

TransportFailed == Parsed(Raise("httpx.TransportError", "request failed"), NoData)

\* TinyHumanMemoryClient._send
_send(response) ==
    IF response.net = "error" THEN TransportFailed
    ELSE _parse_response("TinyHumanError", response)

\* TinyHumanMemoryClient._get
_get(response) ==
    IF response.net = "error" THEN TransportFailed
    ELSE _parse_response("TinyHumanError", response)

\* AsyncAlphahumanMemoryClient._send
alpha_send(response) ==
    IF response.net = "error" THEN TransportFailed
    ELSE _parse_response("AlphahumanError", response)

\* AsyncAlphahumanMemoryClient._get
alpha_get(response) ==
    IF response.net = "error" THEN TransportFailed
    ELSE _parse_response("AlphahumanError", response)

\* sync_return with a retry when the transport failed
sync_return_retry(op, a, p) ==
    IF p.raised.exc = "httpx.TransportError"
    THEN Again(Req("client", "GET", "/memory", <<>>, NoJson))
    ELSE IF p.raised.exc # "" THEN Throw(p.raised)
    ELSE CASE op \in {"ingest_memory", "ingest_memories"} -> ingest_memories_return(p.value)
           [] op = "delete_memory" -> delete_memory_return(p.value)
           [] op = "recall_memory" -> recall_memory_return(a, p.value)
           [] op = "recall_with_llm" ->
                recall_with_llm_return(a, recall_memory_return(a, p.value).value)

\* The rest of the method of TinyHumanMemoryClient that called _send / _get
sync_return(op, a, p) ==
    IF p.raised.exc # "" THEN Throw(p.raised)
    ELSE CASE op \in {"ingest_memory", "ingest_memories"} -> ingest_memories_return(p.value)
           [] op = "delete_memory" -> delete_memory_return(p.value)
           [] op = "recall_memory" -> recall_memory_return(a, p.value)
           [] op = "recall_with_llm" ->
                recall_with_llm_return(a, recall_memory_return(a, p.value).value)

\* The rest of the method of AsyncAlphahumanMemoryClient
alpha_return(op, p) ==
    IF p.raised.exc # "" THEN Throw(p.raised)
    ELSE CASE op = "ingest_memory" -> ingest_memories_return(p.value)
           [] op = "delete_memory" -> delete_memory_return(p.value)
           [] op = "read_memory" -> alpha_read_memory_return(p.value)

\* The rest of llm.recall_with_llm
llm_post_return(a, response) ==
    IF response.net = "error"
    THEN Throw(Raise("httpx.TransportError", "request failed"))
    ELSE llm_return(a, response)

-----------------------------------------------------------------------------
(* Closing: close, __exit__, __aexit__ *)

\* TinyHumanMemoryClient.close: self._http.close()
close(cl) == [cl EXCEPT !.http = "closed"]

\* __exit__ closing only when the block ended without an exception
exit_unless_raising(cl, raising) == IF raising THEN cl ELSE close(cl)

\* TinyHumanMemoryClient.__exit__(*_): the exception, if any, is not looked at
exit(cl, raising) == close(cl)

\* AsyncTinyHumanMemoryClient.close: to_thread(self._sync_client.close)
async_close(cl) == IF bind("close", {}).exc = "" THEN close(cl) ELSE cl

\* AsyncTinyHumanMemoryClient.__aexit__
async_aexit(cl, raising) == async_close(cl)

\* AsyncAlphahumanMemoryClient.close: self._http.aclose()
alpha_close(cl) == [cl EXCEPT !.http = "closed"]

\* AsyncAlphahumanMemoryClient.__aexit__
alpha_aexit(cl, raising) == alpha_close(cl)

-----------------------------------------------------------------------------
(* Actions: the calls of TinyHumanMemoryClient *)

NowValues == {Today}

IngestMemories(c) ==
    /\ client.cls = Sync
    /\ Ready(c)
    /\ \E now \in NowValues : \E items \in ItemLists(now) :
          Begin(c, "ingest_memories", [items |-> items], now,
                ingest_memories(items, now))

IngestMemory(c) ==
    /\ client.cls = Sync
    /\ Ready(c)
    /\ \E now \in NowValues : \E item \in Items(now) :
          Begin(c, "ingest_memory", [item |-> item], now, ingest_memory(item, now))

RecallMemory(c) ==
    /\ client.cls = Sync
    /\ Ready(c)
    /\ \E a \in RecallInputs : Begin(c, "recall_memory", a, Today, recall_memory(a))

DeleteMemory(c) ==
    /\ client.cls = Sync
    /\ Ready(c)
    /\ \E a \in DeleteInputs({"p"}, DeleteKeysInputs) :
          Begin(c, "delete_memory", a, Today, delete_memory(a))

RecallWithLlm(c) ==
    /\ client.cls = Sync
    /\ Ready(c)
    /\ \E a \in LlmInputs : Begin(c, "recall_with_llm", a, Today, recall_with_llm(a))

\* _send returns (or raises) and the method that called it runs on
SendReturns(c) ==
    /\ client.cls \in {Sync, Async}
    /\ calls[c].pc = "wait"
    /\ calls[c].reqs[NReq(c)].via = "client"
    /\ calls[c].reqs[NReq(c)].method \in {"POST", "DELETE"}
    /\ \E response \in Responses(calls[c].op) :
          Resume(c, response, sync_return(calls[c].op, calls[c].a, _send(response)))

\* _get returns (or raises) and the method that called it runs on
GetReturns(c) ==
    /\ client.cls \in {Sync, Async}
    /\ calls[c].pc = "wait"
    /\ calls[c].reqs[NReq(c)].via = "client"
    /\ calls[c].reqs[NReq(c)].method = "GET"
    /\ \E response \in Responses(calls[c].op) :
          Resume(c, response, sync_return(calls[c].op, calls[c].a, _get(response)))

\* The provider answered the POST of the LLM bridge
LlmReturns(c) ==
    /\ calls[c].pc = "wait"
    /\ calls[c].reqs[NReq(c)].via = "llm"
    /\ \E response \in LlmResponses :
          Resume(c, response, llm_post_return(calls[c].a, response))

(* Actions: the calls of AsyncTinyHumanMemoryClient *)

AsyncIngestMemory(c) ==
    /\ client.cls = Async
    /\ Ready(c)
    /\ \E now \in NowValues : \E items \in ItemLists(now) :
          Begin(c, "ingest_memory", [items |-> items], now,
                async_ingest_memory([items |-> items], now))

AsyncGetContext(c) ==
    /\ client.cls = Async
    /\ Ready(c)
    /\ \E a \in GetContextInputs :
          Begin(c, "get_context", a, Today, async_get_context(a, Today))

AsyncDeleteMemory(c) ==
    /\ client.cls = Async
    /\ Ready(c)
    /\ \E a \in DeleteInputs({None, "p"}, DeleteKeysInputs) :
          Begin(c, "delete_memory", a, Today, async_delete_memory(a, Today))

(* Actions: the calls of AsyncAlphahumanMemoryClient *)

AlphaIngestMemory(c) ==
    /\ client.cls = Alpha
    /\ Ready(c)
    /\ \E now \in NowValues : \E items \in ItemLists(now) :
          Begin(c, "ingest_memory", [items |-> items], now,
                alpha_ingest_memory([items |-> items]))

AlphaReadMemory(c) ==
    /\ client.cls = Alpha
    /\ Ready(c)
    /\ \E a \in ReadInputs : Begin(c, "read_memory", a, Today, alpha_read_memory(a))

AlphaDeleteMemory(c) ==
    /\ client.cls = Alpha
    /\ Ready(c)
    /\ \E a \in DeleteInputs({None, "p"}, KeysInputs) :
          Begin(c, "delete_memory", a, Today, alpha_delete_memory(a))

AlphaSendReturns(c) ==
    /\ client.cls = Alpha
    /\ calls[c].pc = "wait"
    /\ calls[c].reqs[NReq(c)].method \in {"POST", "DELETE"}
    /\ \E response \in Responses(calls[c].op) :
          Resume(c, response, alpha_return(calls[c].op, alpha_send(response)))

AlphaGetReturns(c) ==
    /\ client.cls = Alpha
    /\ calls[c].pc = "wait"
    /\ calls[c].reqs[NReq(c)].method = "GET"
    /\ \E response \in Responses(calls[c].op) :
          Resume(c, response, alpha_return(calls[c].op, alpha_get(response)))

(* Actions: the life of the client.  A sequential caller closes or leaves  *)
(* the block between calls, and issues no call on a closed client.         *)

Quiet == \A c \in Slots : calls[c].pc # "wait"

\* The caller enters `with client:` / `async with client:`; __enter__ and
\* __aenter__ return self
Enter ==
    /\ scope = "none"
    /\ client.http = "open"
    /\ \A c \in Slots : calls[c].pc \in {"idle", "off"}
    /\ scope' = "body"
    /\ UNCHANGED <<client, calls, wire, fin, fout>>

\* Whether the block may be left this way: an exception of a call leaves
\* it raising unless the body caught it, and the body may raise on its own
MayLeave(raising) ==
    /\ scope = "body"
    /\ Quiet
    /\ raising \in BOOLEAN

\* The block is left, normally or by an exception: __exit__ runs
Exit ==
    /\ client.cls = Sync
    /\ \E raising \in BOOLEAN :
          /\ MayLeave(raising)
          /\ client' = exit(client, raising)
          /\ scope' = IF raising THEN "left raising" ELSE "left"
    /\ UNCHANGED <<calls, wire, fin, fout>>

AsyncExit ==
    /\ client.cls = Async
    /\ \E raising \in BOOLEAN :
          /\ MayLeave(raising)
          /\ client' = async_aexit(client, raising)
          /\ scope' = IF raising THEN "left raising" ELSE "left"
    /\ UNCHANGED <<calls, wire, fin, fout>>

AlphaExit ==
    /\ client.cls = Alpha
    /\ \E raising \in BOOLEAN :
          /\ MayLeave(raising)
          /\ client' = alpha_aexit(client, raising)
          /\ scope' = IF raising THEN "left raising" ELSE "left"
    /\ UNCHANGED <<calls, wire, fin, fout>>

Close ==
    /\ client.cls = Sync
    /\ Quiet
    /\ client' = close(client)
    /\ UNCHANGED <<scope, calls, wire, fin, fout>>

AsyncClose ==
    /\ client.cls = Async
    /\ Quiet
    /\ client' = async_close(client)
    /\ UNCHANGED <<scope, calls, wire, fin, fout>>

AlphaClose ==
    /\ client.cls = Alpha
    /\ Quiet
    /\ client' = alpha_close(client)
    /\ UNCHANGED <<scope, calls, wire, fin, fout>>

-----------------------------------------------------------------------------
(* The specification of one client used by a sequential caller *)

Init ==
    /\ client \in { NewClient(cls) : cls \in {Sync, Async, Alpha} }
    /\ scope = "none"
    /\ calls = [c \in Slots |-> IF c = 1 THEN Idle ELSE Off]
    /\ wire = <<>>
    /\ fin = NoFn
    /\ fout = NoFnOut

Call(c) ==
    \/ IngestMemories(c)
    \/ IngestMemory(c)
    \/ RecallMemory(c)
    \/ DeleteMemory(c)
    \/ RecallWithLlm(c)
    \/ SendReturns(c)
    \/ GetReturns(c)
    \/ LlmReturns(c)
    \/ AsyncIngestMemory(c)
    \/ AsyncGetContext(c)
    \/ AsyncDeleteMemory(c)
    \/ AlphaIngestMemory(c)
    \/ AlphaReadMemory(c)
    \/ AlphaDeleteMemory(c)
    \/ AlphaSendReturns(c)
    \/ AlphaGetReturns(c)

Life ==
    \/ Enter
    \/ Exit
    \/ AsyncExit
    \/ AlphaExit
    \/ Close
    \/ AsyncClose
    \/ AlphaClose

Next == (\E c \in Slots : Call(c)) \/ Life

Spec == Init /\ [][Next]_vars

-----------------------------------------------------------------------------
(* The specification of _validate_timestamps applied on its own *)

TsNows == {Today, Today + 1}

TsValues(now) ==
    { TsNone, TsStr, Num(-1), Num(0), Num(now - 1), Num(now),
      Num(now + HundredYears), Num(now + HundredYears + 1),
      Num(now + 2 * HundredYears) }

TsInputs ==
    UNION { [fn : {"_validate_timestamps"}, now : {n},
             created_at : TsValues(n), updated_at : TsValues(n)] : n \in TsNows }

InitTs ==
    /\ client = NoClient
    /\ scope = "none"
    /\ calls = [c \in Slots |-> Off]
    /\ wire = <<>>
    /\ fin \in TsInputs
    /\ fout = NoFnOut

ValidateTimestamps ==
    /\ fin.fn = "_validate_timestamps"
    /\ ~fout.done
    /\ fout' = [done |-> TRUE,
                raised |-> _validate_timestamps(fin.created_at, fin.updated_at, fin.now)]
    /\ UNCHANGED <<client, scope, calls, wire, fin>>

NextTs == ValidateTimestamps

SpecTs == InitTs /\ [][NextTs]_vars

-----------------------------------------------------------------------------
(* The specification of _parse_response applied on its own *)

ParseStatuses == {200, 204, 400, 404, 500}

ParseBodies ==
    Bodies(DeleteData)
    \cup { ObjectBody({"error", "data"}, "x", d) : d \in DeleteData }

ParseInputs ==
    [fn : {"_parse_response"}, cls : {ErrorClass(Sync), ErrorClass(Alpha)},
     response : { Http(st, b) : st \in ParseStatuses, b \in ParseBodies }]

InitParse ==
    /\ client = NoClient
    /\ scope = "none"
    /\ calls = [c \in Slots |-> Off]
    /\ wire = <<>>
    /\ fin \in ParseInputs
    /\ fout = NoFnOut

ParseResponse ==
    /\ fin.fn = "_parse_response"
    /\ ~fout.done
    /\ fout' = [done |-> TRUE, parsed |-> _parse_response(fin.cls, fin.response)]
    /\ UNCHANGED <<client, scope, calls, wire, fin>>

NextParse == ParseResponse

SpecParse == InitParse /\ [][NextParse]_vars

-----------------------------------------------------------------------------
(* The specification of an async client with several calls in flight: the  *)
(* caller issued them without awaiting, and their steps interleave freely  *)

ConcItemLists == { <<>>, <<MemoryItem("k1", "A", "default")>> }

ConcDeleteInputs ==
    [namespace : {"p"}, key : {None, "k1", "k2"}, keys : {KeysNone},
     delete_all : {FALSE}]

ConcReadInputs ==
    { r \in ReadInputs : r.keys = KeysNone /\ r.namespace = None }

ConcGetContextInputs ==
    { a \in GetContextInputs : a.keys = KeysNone /\ a.namespace = None /\ a.key = None }

\* The responses tried: a failure, an error envelope, two different results
ConcResponses(op) ==
    { NetErr, Http(500, ObjectBody({"error"}, "x", NoData)) }
    \cup { Http(200, ObjectBody({"data"}, "", d)) :
             d \in CASE op = "ingest_memory" ->
                          { di \in IngestData : di.ingested + di.updated = 1 /\ di.errors = 0 }
                     [] op = "delete_memory" -> DeleteData
                     [] OTHER -> { di \in ItemsData : di.count = 1 } }

InitConc ==
    /\ client \in { NewClient(cls) : cls \in {Async, Alpha} }
    /\ scope = "none"
    /\ calls = [c \in Slots |-> Idle]
    /\ wire = <<>>
    /\ fin = NoFn
    /\ fout = NoFnOut

ConcAsyncIngestMemory(c) ==
    /\ client.cls = Async
    /\ Ready(c)
    /\ \E items \in ConcItemLists :
          Begin(c, "ingest_memory", [items |-> items], Today,
                async_ingest_memory([items |-> items], Today))

ConcAsyncGetContext(c) ==
    /\ client.cls = Async
    /\ Ready(c)
    /\ \E a \in ConcGetContextInputs :
          Begin(c, "get_context", a, Today, async_get_context(a, Today))

ConcAsyncDeleteMemory(c) ==
    /\ client.cls = Async
    /\ Ready(c)
    /\ \E a \in ConcDeleteInputs :
          Begin(c, "delete_memory", a, Today, async_delete_memory(a, Today))

\* The worker thread of call c: _send returns and delete_memory runs on
ConcSendReturns(c) ==
    /\ client.cls = Async
    /\ calls[c].pc = "wait"
    /\ \E response \in ConcResponses(calls[c].op) :
          Resume(c, response, sync_return(calls[c].op, calls[c].a, _send(response)))

ConcAlphaIngestMemory(c) ==
    /\ client.cls = Alpha
    /\ Ready(c)
    /\ \E items \in ConcItemLists :
          Begin(c, "ingest_memory", [items |-> items], Today,
                alpha_ingest_memory([items |-> items]))

ConcAlphaReadMemory(c) ==
    /\ client.cls = Alpha
    /\ Ready(c)
    /\ \E a \in ConcReadInputs : Begin(c, "read_memory", a, Today, alpha_read_memory(a))

ConcAlphaDeleteMemory(c) ==
    /\ client.cls = Alpha
    /\ Ready(c)
    /\ \E a \in ConcDeleteInputs :
          Begin(c, "delete_memory", a, Today, alpha_delete_memory(a))

\* _send reading the response from a field of the client that every call
\* writes: call c may find there the response to another call
ConcAlphaSendReturns_shared(c) ==
    /\ client.cls = Alpha
    /\ calls[c].pc = "wait"
    /\ calls[c].reqs[NReq(c)].method \in {"POST", "DELETE"}
    /\ \E response \in ConcResponses(calls[c].op) :
          \E seen \in {response}
                      \cup { calls[d].resps[1] :
                               d \in { e \in Slots : /\ e # c
                                                     /\ calls[e].op = calls[c].op
                                                     /\ calls[e].resps # <<>> } } :
             Resume(c, response, alpha_return(calls[c].op, alpha_send(seen)))

\* The coroutine of call c resumes: await self._http.request(...) returned
ConcAlphaSendReturns(c) ==
    /\ client.cls = Alpha
    /\ calls[c].pc = "wait"
    /\ calls[c].reqs[NReq(c)].method \in {"POST", "DELETE"}
    /\ \E response \in ConcResponses(calls[c].op) :
          Resume(c, response, alpha_return(calls[c].op, alpha_send(response)))

\* The coroutine of call c resumes: await self._http.get(...) returned
ConcAlphaGetReturns(c) ==
    /\ client.cls = Alpha
    /\ calls[c].pc = "wait"
    /\ calls[c].reqs[NReq(c)].method = "GET"
    /\ \E response \in ConcResponses(calls[c].op) :
          Resume(c, response, alpha_return(calls[c].op, alpha_get(response)))

ConcCall(c) ==
    \/ ConcAsyncIngestMemory(c)
    \/ ConcAsyncGetContext(c)
    \/ ConcAsyncDeleteMemory(c)
    \/ ConcSendReturns(c)
    \/ ConcAlphaIngestMemory(c)
    \/ ConcAlphaReadMemory(c)
    \/ ConcAlphaDeleteMemory(c)
    \/ ConcAlphaSendReturns(c)
    \/ ConcAlphaGetReturns(c)

NextConc == \E c \in Slots : ConcCall(c)

SpecConc == InitConc /\ [][NextConc]_vars

-----------------------------------------------------------------------------
(* The specification of the constructors applied on their own *)

\* tinyhumansai/types.py and alphahuman_memory/types.py
DEFAULT_BASE_URL == "https://api.tinyhumans.ai"
ALPHA_DEFAULT_BASE_URL == "https://api.alphahuman.xyz"

\* str.rstrip("/") on the strings of the model
rstrip_slash(s) ==
    CASE s = "http://a/" -> "http://a"
      [] s = "http://e/" -> "http://e"
      [] OTHER -> s

\* a or b on Optional[str]
PyOrStr(a, b) == IF TruthyStr(a) THEN a ELSE b

\* base_url or os.environ.get(BASE_URL_ENV) or DEFAULT_BASE_URL, rstrip("/")
resolve_base_url(base_url, env, default) ==
    rstrip_slash(PyOrStr(base_url, PyOrStr(env, default)))

Constructed(raised, base_url) == [done |-> TRUE, raised |-> raised, base_url |-> base_url]

\* TinyHumanMemoryClient.__init__(token, model_id, base_url=None)
init(token, model_id, base_url, env) ==
    IF token = "" \/ strip(token) = ""
    THEN Constructed(Raise("ValueError", "token is required"), None)
    ELSE IF model_id = "" \/ strip(model_id) = ""
    THEN Constructed(Raise("ValueError", "model_id is required"), None)
    ELSE Constructed(NoExc, resolve_base_url(base_url, env, DEFAULT_BASE_URL))

\* AsyncTinyHumanMemoryClient.__init__: builds the wrapped client
async_init(token, model_id, base_url, env) == init(token, model_id, base_url, env)

\* AlphahumanConfig(token, base_url=DEFAULT_BASE_URL): the field base_url
AlphahumanConfig(token, passed, base_url) ==
    [token |-> token,
     base_url |-> IF passed THEN base_url ELSE ALPHA_DEFAULT_BASE_URL]

\* AsyncAlphahumanMemoryClient.__init__(config)
alpha_init(config, env) ==
    IF config.token = "" \/ strip(config.token) = ""
    THEN Constructed(Raise("ValueError", "token is required"), None)
    ELSE Constructed(NoExc, resolve_base_url(config.base_url, env, ALPHA_DEFAULT_BASE_URL))

\* The constructor calls tried: base_url passed or left out, the override
\* variable unset (None), empty or set
NewInputs ==
    [fn : {"__init__"}, cls : {Sync, Async, Alpha}, token : {"T", "  "},
     model_id : {"M", ""}, passed : {TRUE},
     base_url : {None, "", "http://a", "http://a/"},
     env : {None, "", "http://e", "http://e/"}]
    \cup
    [fn : {"__init__"}, cls : {Sync, Async, Alpha}, token : {"T", "  "},
     model_id : {"M", ""}, passed : {FALSE}, base_url : {None},
     env : {None, "", "http://e", "http://e/"}]

InitNew ==
    /\ client = NoClient
    /\ scope = "none"
    /\ calls = [c \in Slots |-> Off]
    /\ wire = <<>>
    /\ fin \in NewInputs
    /\ fout = NoFnOut

Construct ==
    /\ fin.fn = "__init__"
    /\ ~fout.done
    /\ fout' = CASE fin.cls = Sync ->
                      init(fin.token, fin.model_id, fin.base_url, fin.env)
                 [] fin.cls = Async ->
                      async_init(fin.token, fin.model_id, fin.base_url, fin.env)
                 [] fin.cls = Alpha ->
                      alpha_init(AlphahumanConfig(fin.token, fin.passed, fin.base_url),
                                 fin.env)
    /\ UNCHANGED <<client, scope, calls, wire, fin>>

NextNew == Construct

SpecNew == InitNew /\ [][NextNew]_vars

-----------------------------------------------------------------------------
(* The specification of recall_with_llm on clients that differ in their    *)
(* token and model id                                                      *)

\* TinyHumanMemoryClient(token, model_id) after __init__
TokenClient(token, model_id) ==
    [NewClient(Sync) EXCEPT !.headers = {<<"Authorization", "Bearer " \o token>>,
                                          <<"X-Model-Id", model_id>>}]

Tokens == {"T", "T2"}

ModelIds == {"M", "M2"}

InitLlm ==
    /\ client \in { TokenClient(t, m) : t \in Tokens, m \in ModelIds }
    /\ scope = "none"
    /\ calls = [c \in Slots |-> IF c = 1 THEN Idle ELSE Off]
    /\ wire = <<>>
    /\ fin = NoFn
    /\ fout = NoFnOut

LlmRecallWithLlm == \E c \in Slots : RecallWithLlm(c)

LlmGetReturns == \E c \in Slots : GetReturns(c) /\ calls[c].op = "recall_with_llm"

LlmProviderReturns == \E c \in Slots : LlmReturns(c)

NextLlm == LlmRecallWithLlm \/ LlmGetReturns \/ LlmProviderReturns

SpecLlm == InitLlm /\ [][NextLlm]_vars

-----------------------------------------------------------------------------
(* Properties *)

Started(c) == calls[c].pc \in {"wait", "done"}

\* The requests of call c on the wire
SentBy(c) == Cardinality({ i \in 1..Len(wire) : wire[i].slot = c })

\* C1: ingest with an empty item list fails with ValueError, in every client
\* variant, and no HTTP request is issued before the failure.
C1_EmptyIngestRaisesValueError ==
    \A c \in Slots :
        (Started(c) /\ "items" \in DOMAIN calls[c].a /\ calls[c].a.items = <<>>)
        => /\ calls[c].pc = "done"
           /\ calls[c].out.raised.exc = "ValueError"
           /\ SentBy(c) = 0

\* C2: a call that ends in a ValueError (caller misuse) has issued no HTTP
\* request, in every operation, recall_with_llm with an empty context and a
\* namespace included.
C2_InvalidArgumentSendsNothing ==
    \A c \in Slots :
        (calls[c].pc = "done" /\ calls[c].out.raised.exc = "ValueError")
        => SentBy(c) = 0

\* No key, no keys and no delete_all: nothing says what to delete
NoTarget(a) ==
    /\ a.key \in {None, ""}
    /\ a.keys.tag = "none" \/ Len(a.keys.v) = 0
    /\ ~a.delete_all

\* C3: delete fails with ValueError and sends no DELETE whenever key is
\* absent or empty, keys is absent or empty and delete_all is false, whatever
\* the namespace; in every other case exactly one DELETE request is sent.
C3_DeleteNeedsATarget ==
    \A c \in Slots :
        (Started(c) /\ calls[c].op = "delete_memory")
        => IF NoTarget(calls[c].a)
           THEN /\ calls[c].pc = "done"
                /\ calls[c].out.raised.exc = "ValueError"
                /\ SentBy(c) = 0
           ELSE /\ SentBy(c) = 1
                /\ calls[c].reqs[1].method = "DELETE"

Present(x) == x.tag # "none"

\* The rule of the specification for a pair of timestamps
TimestampsValid(created_at, updated_at, now) ==
    /\ \A x \in {created_at, updated_at} :
          Present(x) => x.v >= 0 /\ x.v <= now + HundredYears
    /\ (Present(created_at) /\ Present(updated_at)) => updated_at.v >= created_at.v

\* C4: a pair (createdAt, updatedAt), each absent or numeric, is accepted
\* exactly when every present value is >= 0 and <= now + 100 years and, if
\* both are present, updatedAt >= createdAt; a rejection is a ValueError.
C4_TimestampsAcceptedExactlyWhenValid ==
    (fout.done /\ fin.fn = "_validate_timestamps"
     /\ fin.created_at.tag # "str" /\ fin.updated_at.tag # "str")
    => /\ fout.raised.exc \in {"", "ValueError"}
       /\ fout.raised.exc = ""
          <=> TimestampsValid(fin.created_at, fin.updated_at, fin.now)

\* updated = t - 1 with created = t was tried and rejected
C4_Witness ==
    /\ fout.done
    /\ fin.fn = "_validate_timestamps"
    /\ fin.created_at = Num(fin.now)
    /\ fin.updated_at = Num(fin.now - 1)
    /\ fout.raised.exc = "ValueError"

\* C5: for every response the parser yields exactly one of: the client's
\* error carrying the status and the raw text when the body is not JSON; the
\* client's error carrying the status, the decoded body and the message (the
\* `error` field, else "HTTP {status}") when the body is JSON and the status a
\* failure; otherwise the `data` field.  No other exception escapes.
C5_ParserYieldsOneOfThree ==
    (fout.done /\ fin.fn = "_parse_response")
    => LET r == fin.response
           p == fout.parsed
       IN  IF ~r.body.json
           THEN /\ p.raised.exc = fin.cls
                /\ p.raised.status = r.status
                /\ p.raised.body.is = "text"
                /\ p.raised.body.text = r.body.text
           ELSE IF ~is_success(r.status)
           THEN /\ p.raised.exc = fin.cls
                /\ p.raised.status = r.status
                /\ p.raised.body.is = "payload"
                /\ p.raised.body.payload = r.body.payload
                /\ p.raised.msg = IF "error" \in r.body.payload.has
                                  THEN r.body.payload.error
                                  ELSE "HTTP " \o ToString(r.status)
           ELSE /\ p.raised.exc = ""
                /\ p.value = r.body.payload.data

MemoryOps ==
    {"ingest_memory", "ingest_memories", "recall_memory", "delete_memory",
     "read_memory", "get_context"}

\* One request at most; a call that saw a response or a transport failure
\* is over, with a value or an exception, after its one request
OneRoundTrip(c) ==
    /\ SentBy(c) <= 1
    /\ NReq(c) = SentBy(c)
    /\ calls[c].resps # <<>>
       => /\ calls[c].pc = "done"
          /\ Len(calls[c].resps) = 1
          /\ SentBy(c) = 1
          /\ calls[c].out.raised.exc # "" \/ calls[c].out.value # NoValue

\* C6: every memory operation is a single round trip: at most one HTTP
\* request per call, and once a response or a transport failure has been
\* observed the call is over and issues no further request.
C6_SingleRoundTrip ==
    /\ [](\A c \in Slots : calls[c].op \in MemoryOps => OneRoundTrip(c))
    /\ [][\A c \in Slots :
            (calls[c].op \in MemoryOps /\ calls[c].pc = "done")
            => calls'[c] = calls[c] /\ SentBy(c)' = SentBy(c)]_vars

\* A call that was answered 500 is over after its one request
C6_Witness ==
    \E c \in Slots :
        /\ calls[c].op = "delete_memory"
        /\ calls[c].pc = "done"
        /\ SentBy(c) = 1
        /\ calls[c].resps = <<Http(500, ObjectBody({"error"}, "x", NoData))>>
        /\ calls[c].out.raised.status = 500

\* The method of TinyHumanMemoryClient an operation of the facade stands for
SyncStep(op, a, now) ==
    CASE op = "ingest_memory" -> ingest_memories(a.items, now)
      [] op = "delete_memory" -> delete_memory(a)

\* C7: for every operation and argument set, AsyncTinyHumanMemoryClient
\* produces the same request, the same result and the same error kind as
\* the TinyHumanMemoryClient operation (shown for ingest and delete).
C7_AsyncSameAsSync ==
    \A c \in Slots :
        (client.cls = Async /\ Started(c)
         /\ calls[c].op \in {"ingest_memory", "delete_memory"})
        => LET s == SyncStep(calls[c].op, calls[c].a, calls[c].now)
           IN  /\ calls[c].reqs = IF s.send THEN <<OnWire(s.req)>> ELSE <<>>
               /\ calls[c].resps = <<>>
                  => /\ calls[c].out.raised = s.raised
                     /\ (calls[c].pc = "wait") = s.send
               /\ calls[c].resps # <<>>
                  => LET r == sync_return(calls[c].op, calls[c].a,
                                          _send(calls[c].resps[1]))
                     IN  calls[c].out = [raised |-> r.raised, value |-> r.value]

\* What the arguments of call c alone make of its first step
OwnStep(c) ==
    LET op == calls[c].op
        a == calls[c].a
    IN  IF client.cls = Async
        THEN CASE op = "ingest_memory" -> async_ingest_memory(a, calls[c].now)
               [] op = "get_context" -> async_get_context(a, calls[c].now)
               [] op = "delete_memory" -> async_delete_memory(a, calls[c].now)
        ELSE CASE op = "ingest_memory" -> alpha_ingest_memory(a)
               [] op = "read_memory" -> alpha_read_memory(a)
               [] op = "delete_memory" -> alpha_delete_memory(a)

\* What its arguments and the response to its own request make of its end
OwnReturn(c) ==
    LET op == calls[c].op
        response == calls[c].resps[1]
    IN  IF client.cls = Async
        THEN sync_return(op, calls[c].a, _send(response))
        ELSE alpha_return(op, IF calls[c].reqs[1].method = "GET"
                              THEN alpha_get(response) ELSE alpha_send(response))

OwnOnly(c) ==
    /\ calls[c].reqs = IF OwnStep(c).send THEN <<OnWire(OwnStep(c).req)>> ELSE <<>>
    /\ Len(calls[c].resps) <= 1
    /\ calls[c].out = IF calls[c].resps = <<>>
                      THEN [raised |-> OwnStep(c).raised, value |-> NoValue]
                      ELSE [raised |-> OwnReturn(c).raised, value |-> OwnReturn(c).value]

\* C8: concurrent calls on one async client are independent: under every
\* interleaving each call's request is built from its own arguments only,
\* its result or error depends only on its own arguments and its own
\* response, a step of one call changes no other call, and no operation
\* writes the state of the client.
C8_CallsIndependent ==
    /\ [](\A c \in Slots : Started(c) => OwnOnly(c))
    /\ [][/\ client' = client
          /\ \A c, d \in Slots :
                (c # d /\ calls'[c] # calls[c]) => calls'[d] = calls[d]]_vars

\* Two calls of the same operation were in flight together, got different
\* responses, and each ended by its own
C8_Witness ==
    \E c, d \in Slots :
        /\ c # d
        /\ calls[c].op = "delete_memory" /\ calls[d].op = "delete_memory"
        /\ calls[c].pc = "done" /\ calls[d].pc = "done"
        /\ calls[c].a.key = "k1" /\ calls[d].a.key = "k2"
        /\ wire = <<[slot |-> c, req |-> calls[c].reqs[1]],
                    [slot |-> d, req |-> calls[d].reqs[1]]>>
        /\ calls[c].resps[1].status = 500
        /\ calls[d].resps[1].status = 200
        /\ calls[c].out.raised.status = 500
        /\ calls[d].out.value = [deleted |-> 2]

Left == scope \in {"left", "left raising"}

\* C9: close releases the pool; leaving the with / async with block always
\* closes, whether the body ended normally or by an exception; once released
\* the pool is never re-opened.
C9_PoolReleased ==
    /\ [](Left => client.http = "closed")
    /\ [][(Close \/ AsyncClose \/ AlphaClose) => client'.http = "closed"]_vars
    /\ [][client.http = "closed" => client'.http = "closed"]_vars

\* A call raised in the body, the block was left by an exception, and the
\* pool is closed
C9_Witness ==
    /\ scope = "left raising"
    /\ client.http = "closed"
    /\ \E c \in Slots : calls[c].pc = "done" /\ calls[c].out.raised.exc # ""

\* The cap of a call, if it has one
CapOf(c) ==
    IF calls[c].op = "recall_memory" THEN Num(calls[c].a.num_chunks)
    ELSE IF calls[c].op = "get_context" THEN calls[c].a.max_items
    ELSE TsNone

\* C10: with a positive cap N (num_chunks / max_items) and L items from the
\* service, the call returns the first min(N, L) items in the service's
\* order with count min(N, L), truncating the one response it received: one
\* request is issued and no second one.
C10_CapTruncates ==
    \A c \in Slots :
        (calls[c].pc = "done" /\ CapOf(c).tag = "num" /\ CapOf(c).v >= 1)
        => /\ SentBy(c) = 1
           /\ Len(calls[c].resps) = 1
           /\ calls[c].out.raised.exc = ""
              => LET items == calls[c].resps[1].body.payload.data.items
                     n == Min(CapOf(c).v, Len(items))
                 IN  /\ calls[c].out.value.items = ReadItems(SubSeq(items, 1, n))
                     /\ calls[c].out.value.count = n

\* The text of the first n items: the blocks in order, a blank line before
\* every block but the first
RECURSIVE BlocksText(_, _)
BlocksText(items, n) ==
    IF n = 0 THEN ""
    ELSE (IF n = 1 THEN "" ELSE BlocksText(items, n - 1) \o "\n\n")
         \o "[" \o items[n].namespace \o ":" \o items[n].key \o "]\n"
         \o items[n].content

\* C11: the context text of a recall is the blocks "[namespace:key]" newline
\* content of the returned items, in their order, joined by one blank line
\* with no leading or trailing separator; no items give the empty string,
\* and there are as many blocks as the returned count.
C11_ContextIsJoinedBlocks ==
    \A c \in Slots :
        (calls[c].op = "recall_memory" /\ calls[c].pc = "done"
         /\ calls[c].out.value # NoValue)
        => LET r == calls[c].out.value
           IN  /\ r.count = Len(r.items)
               /\ r.context = BlocksText(r.items, r.count)
               /\ r.items = <<>> => r.context = ""

\* A recall returned two items, and their two blocks with one blank line
\* between them
C11_Witness ==
    \E c \in Slots :
        /\ calls[c].op = "recall_memory"
        /\ calls[c].pc = "done"
        /\ calls[c].out.value # NoValue
        /\ calls[c].out.value.count = 2
        /\ calls[c].out.value.context = "[p:k2]\nB\n\n[p:k1]\nA"

\* An ingest call that returned an IngestMemoryResponse
IngestReturned(c) ==
    /\ calls[c].op \in {"ingest_memory", "ingest_memories"}
    /\ calls[c].pc = "done"
    /\ calls[c].out.value # NoValue

\* The length of the normalized list the call sent
SentLen(c) == Len(calls[c].reqs[1].json.items)

Total(counts) == counts.ingested + counts.updated + counts.errors

\* C12 as stated: whenever ingest returns, ingested + updated + errors of the
\* result equals the length of the normalized item list that was sent.
C12_CountsSumToLength ==
    \A c \in Slots :
        IngestReturned(c) => Total(calls[c].out.value) = SentLen(c)

\* C12 amended: the result carries the three counts of the service's response
\* unchanged, so ingested + updated + errors equals the length of the list
\* sent exactly when the counts the service returned sum to it.
C12_CountsAreTheServices ==
    \A c \in Slots :
        IngestReturned(c)
        => LET data == calls[c].resps[1].body.payload.data
           IN  /\ calls[c].out.value =
                     [ingested |-> data.ingested, updated |-> data.updated,
                      errors |-> data.errors]
               /\ (Total(calls[c].out.value) = SentLen(c)) = (Total(data) = SentLen(c))

\* Two items were sent, the service counted one ingested and one updated,
\* and the result says so
C12_Witness ==
    \E c \in Slots :
        /\ IngestReturned(c)
        /\ SentLen(c) = 2
        /\ calls[c].out.value = [ingested |-> 1, updated |-> 1, errors |-> 0]

\* The cases of the normalizer the contract lists: no items, a first entry
\* that is a map without `key` or without `content` (and otherwise
\* acceptable), a first entry that is neither a MemoryItem nor a map
Malformed(items) ==
    \/ items = <<>>
    \/ /\ items # <<>>
       /\ \/ items[1].kind \notin {"MemoryItem", "dict"}
          \/ /\ items[1].kind = "dict"
             /\ "namespace" \in items[1].has
             /\ {"key", "content"} \ items[1].has # {}
             /\ \A f \in {"createdAt", "created_at", "updatedAt", "updated_at"} :
                   items[1][f] = TsNone

\* C13: the normalizer fails with ValueError, and with no other error kind,
\* when the item sequence is empty, when a map entry lacks `key` or
\* `content`, and when an entry is neither a typed MemoryItem nor a map.
C13_MalformedItemsRaiseValueError ==
    \A c \in Slots :
        (calls[c].op = "ingest_memories" /\ Started(c)
         /\ Malformed(calls[c].a.items))
        => /\ calls[c].pc = "done"
           /\ calls[c].out.raised.exc = "ValueError"

\* The map carrying the field values of a typed item
AsMap(item) == [item EXCEPT !.kind = "dict"]

\* C14: a typed MemoryItem with valid fields is normalized, and to the same
\* canonical entry as the map carrying the same field values, with createdAt
\* and updatedAt in the entry exactly when a timestamp was supplied.
C14_TypedItemNormalizedAsMap ==
    \A c \in Slots :
        (calls[c].op = "ingest_memories" /\ Started(c)
         /\ Len(calls[c].a.items) = 1
         /\ calls[c].a.items[1].kind = "MemoryItem")
        => LET item == calls[c].a.items[1]
               m == normalize_item(AsMap(item), calls[c].now)
           IN  /\ m.raised = NoExc
               /\ NReq(c) = 1
               /\ calls[c].reqs[1].json.items = <<m.entry>>
               /\ ("createdAt" \in m.entry.has) = (item.created_at # TsNone)
               /\ ("updatedAt" \in m.entry.has) = (item.updated_at # TsNone)

\* The timestamp a map supplies under one of its two names
Supplied(item, wire_name, python_name) ==
    IF item[wire_name] # TsNone THEN item[wire_name] ELSE item[python_name]

\* C15: for a map item, the timestamp supplied under either name is the one
\* forwarded under the wire name: when it is a valid number, 0 included, the
\* canonical entry carries exactly that value, and the field is omitted only
\* when neither name is present; created and updated independently.
C15_EitherNameForwarded ==
    \A c \in Slots :
        (calls[c].op = "ingest_memories" /\ Started(c)
         /\ Len(calls[c].a.items) = 1
         /\ calls[c].a.items[1].kind = "dict"
         /\ calls[c].a.items[1].has = DictKeys)
        => LET item == calls[c].a.items[1]
               created == Supplied(item, "createdAt", "created_at")
               updated == Supplied(item, "updatedAt", "updated_at")
           IN  _validate_timestamps(created, updated, calls[c].now) = NoExc
               => /\ NReq(c) = 1
                  /\ LET e == calls[c].reqs[1].json.items[1]
                     IN  /\ ("createdAt" \in e.has) = (created # TsNone)
                         /\ ("updatedAt" \in e.has) = (updated # TsNone)
                         /\ e.createdAt = created
                         /\ e.updatedAt = updated

\* The targeting fields of a DELETE body
Targets(body) == body.has \cap {"key", "keys", "deleteAll"}

\* C16: every DELETE request sent names exactly one targeting strategy in
\* its body: a single key, a set of keys, or the delete-all flag; never none
\* and never two or more.
C16_ExactlyOneTarget ==
    \A i \in 1..Len(wire) :
        wire[i].req.method = "DELETE"
        => Cardinality(Targets(wire[i].req.json)) = 1

\* The requests call c made to an LLM provider
LlmRequests(c) == SelectSeq(calls[c].reqs, LAMBDA r : r.via = "llm")

\* Call c has come to the dispatch of the bridge: it has an API key, and a
\* context that was given or that its recall fetched
Dispatched(c) ==
    /\ calls[c].op = "recall_with_llm"
    /\ Started(c)
    /\ strip(calls[c].a.api_key) # ""
    /\ \/ strip(calls[c].a.context) # ""
       \/ /\ calls[c].resps # <<>>
          /\ _get(calls[c].resps[1]).raised = NoExc

UnknownProvider(a) ==
    /\ ~TruthyStr(a.url)
    /\ lower(strip(a.provider)) \notin {"openai", "anthropic", "google"}

\* C17: with no url, a provider tag that trimmed and lower-cased is none of
\* openai, anthropic, google fails with a ValueError naming the three, and no
\* provider request is sent; with url set, the custom path is taken for every
\* provider value and the provider request goes to that url only.
C17_BridgeDispatch ==
    \A c \in Slots :
        calls[c].op = "recall_with_llm"
        => LET a == calls[c].a
           IN  /\ UnknownProvider(a) => LlmRequests(c) = <<>>
               /\ (UnknownProvider(a) /\ Dispatched(c))
                  => /\ calls[c].pc = "done"
                     /\ calls[c].out.raised =
                           Raise("ValueError",
                                 "provider must be one of ('openai', 'anthropic', 'google')")
               /\ TruthyStr(a.url)
                  => /\ \A i \in 1..Len(LlmRequests(c)) : LlmRequests(c)[i].url = a.url
                     /\ Dispatched(c)
                        => /\ Len(LlmRequests(c)) = 1
                           /\ LET r == LlmRequests(c)[1]
                              IN  /\ r.method = "POST"
                                  /\ r.headers =
                                        {<<"Authorization", "Bearer " \o strip(a.api_key)>>}
                                  /\ {"model", "messages"} \subseteq r.json.has
                                  /\ r.json.model = a.model
                                  /\ r.json.messages[Len(r.json.messages)] =
                                        [role |-> "user", content |-> a.prompt]

\* With url set and a provider tag that names no provider, the request went
\* to the url and its reply came back
C17_Witness ==
    \E c \in Slots :
        /\ calls[c].op = "recall_with_llm"
        /\ calls[c].a.url = "http://u"
        /\ calls[c].a.provider = "unknown"
        /\ calls[c].pc = "done"
        /\ Len(LlmRequests(c)) = 1
        /\ LlmRequests(c)[1].url = "http://u"
        /\ calls[c].out.value = [text |-> "hi"]

\* The provider answered the last request of call c with a failure status
ProviderFailed(c) ==
    /\ calls[c].op = "recall_with_llm"
    /\ calls[c].pc = "done"
    /\ calls[c].resps # <<>>
    /\ Len(calls[c].resps) = NReq(c)
    /\ calls[c].reqs[NReq(c)].via = "llm"
    /\ calls[c].resps[NReq(c)].net = "ok"
    /\ ~(200 <= calls[c].resps[NReq(c)].status /\ calls[c].resps[NReq(c)].status <= 299)

\* The name the error is tagged with
ProviderName(a) ==
    IF a.url \notin {None, ""} THEN "Custom provider"
    ELSE CASE lower(strip(a.provider)) = "openai" -> "OpenAI"
           [] lower(strip(a.provider)) = "anthropic" -> "Anthropic"
           [] lower(strip(a.provider)) = "google" -> "Google"

\* The message by the precedence: error.message, else message, else the text
BestEffortMessage(body) ==
    LET object == body.json /\ body.shape = "object"
        error_is_object == object /\ body.error \in {"absent", "object"}
    IN  IF error_is_object /\ body.error = "object" /\ body.errmsg # None
        THEN body.errmsg
        ELSE IF error_is_object /\ body.message # None THEN body.message
        ELSE body.text

\* C18: a non-success status from an LLM provider raises the API error
\* tagged with the provider's name and carrying the status code; its message
\* is the body's error.message if present, else the body's top-level message
\* if present, else the raw body text (so too for a body that is not JSON or
\* whose `error` is not an object); no reply text is returned.
C18_ProviderErrorMessage ==
    \A c \in Slots :
        ProviderFailed(c)
        => LET response == calls[c].resps[NReq(c)]
           IN  /\ calls[c].out.value = NoValue
               /\ calls[c].out.raised.exc = "TinyHumanError"
               /\ calls[c].out.raised.status = response.status
               /\ calls[c].out.raised.msg =
                     ProviderName(calls[c].a) \o " API error: "
                     \o BestEffortMessage(response.body)

\* Anthropic answered 400 with an error object that has a message, beside a
\* top-level message: the error carries the former
C18_Witness ==
    \E c \in Slots :
        /\ ProviderFailed(c)
        /\ calls[c].resps[NReq(c)].status = 400
        /\ calls[c].resps[NReq(c)].body.errmsg = "bad key"
        /\ calls[c].resps[NReq(c)].body.message = "m2"
        /\ calls[c].out.raised.msg = "Anthropic API error: bad key"

\* The default host of a client variant
DefaultHost(cls) == IF cls = Alpha THEN ALPHA_DEFAULT_BASE_URL ELSE DEFAULT_BASE_URL

\* C19: in every client variant the base URL is the constructor argument if
\* one is given, else the environment override if it is set, else the
\* default host (a trailing "/" apart); so with no base URL passed and the
\* override set, the override is used.
C19_BaseUrlResolutionOrder ==
    (fin.fn = "__init__" /\ fout.done /\ fout.raised = NoExc)
    => fout.base_url =
          rstrip_slash(IF fin.passed /\ fin.base_url \notin {None, ""} THEN fin.base_url
                       ELSE IF fin.env \notin {None, ""} THEN fin.env
                       ELSE DefaultHost(fin.cls))

\* The rule a timestamp violates on its own, if any: its kind before its
\* sign before its distance in the future
OwnViolation(value, now) ==
    IF value = TsNone THEN ""
    ELSE IF value.tag # "num" THEN " must be a number"
    ELSE IF value.v < 0 THEN " must be non-negative"
    ELSE IF value.v > now + HundredYears THEN " is too far in the future"
    ELSE ""

\* The errors that name one field
ErrorsNaming(name) ==
    { Raise("ValueError", name \o rule) :
        rule \in {" must be a number", " must be non-negative",
                  " is too far in the future"} }

\* C20: timestamp validation raises on the first violated rule in the order
\* createdAt on its own, updatedAt on its own, the cross-field rule: with
\* several rules violated the error names createdAt before updatedAt and a
\* single field before the updatedAt >= createdAt rule; and validating
\* changes no state.
C20_FirstViolatedRule ==
    /\ [](fin.fn = "_validate_timestamps" /\ fout.done
          => LET c == OwnViolation(fin.created_at, fin.now)
                 u == OwnViolation(fin.updated_at, fin.now)
             IN  /\ c # "" => fout.raised = Raise("ValueError", "created_at" \o c)
                 /\ (c = "" /\ u # "") => fout.raised = Raise("ValueError", "updated_at" \o u)
                 /\ (c # "" \/ u # "")
                    => fout.raised \in ErrorsNaming("created_at") \cup ErrorsNaming("updated_at")
                 /\ (c = "" /\ u = "")
                    => fout.raised \in {NoExc, Raise("ValueError",
                                                    "updated_at must be >= created_at")})
    /\ [][ValidateTimestamps
          => UNCHANGED <<client, scope, calls, wire, fin>>]_vars

\* created_at is negative and updated_at is not a number: the error is the
\* one of created_at
C20_Witness ==
    /\ fin.fn = "_validate_timestamps"
    /\ fin.created_at = Num(-1)
    /\ fin.updated_at = TsStr
    /\ fout.done
    /\ fout.raised = Raise("ValueError", "created_at must be non-negative")

\* An ingest call on TinyHumanMemoryClient, and the items it was given
SyncIngest(c) ==
    /\ client.cls = Sync
    /\ calls[c].op \in {"ingest_memories", "ingest_memory"}
    /\ Started(c)

ItemsOf(c) ==
    IF calls[c].op = "ingest_memory" THEN <<calls[c].a.item>> ELSE calls[c].a.items

NoNamespace(item) == item.kind = "dict" /\ "namespace" \notin item.has

\* The items before position i are maps the normalizer accepts
AcceptedBefore(items, i, now) ==
    \A j \in 1..(i - 1) :
        items[j].kind = "dict" /\ normalize_item(items[j], now).raised = NoExc

\* C21: TinyHumanMemoryClient rejects a map item without a `namespace` key
\* with ValueError, never defaults it to "default" and never sends it; the
\* namespace "default" reaches the wire only when the caller supplied it or
\* used a typed MemoryItem.
C21_NamespaceRequired ==
    \A c \in Slots :
        SyncIngest(c)
        => LET items == ItemsOf(c)
           IN  /\ (\E i \in 1..Len(items) : NoNamespace(items[i]))
                  => /\ SentBy(c) = 0
                     /\ calls[c].pc = "done"
                     /\ calls[c].out.raised.exc # ""
               /\ \A i \in 1..Len(items) :
                     (NoNamespace(items[i]) /\ AcceptedBefore(items, i, calls[c].now))
                     => calls[c].out.raised.exc = "ValueError"
               /\ NReq(c) >= 1
                  => LET sent == calls[c].reqs[1].json.items
                     IN  /\ Len(sent) = Len(items)
                         /\ \A i \in 1..Len(sent) :
                               sent[i].namespace = "default"
                               => \/ items[i].kind = "MemoryItem"
                                  \/ /\ "namespace" \in items[i].has
                                     /\ items[i].namespace = "default"

\* A map without `namespace`, after a map that supplied "default": the call
\* ended in the ValueError about the namespace and nothing was sent
C21_Witness ==
    \E c \in Slots :
        /\ SyncIngest(c)
        /\ Len(ItemsOf(c)) = 2
        /\ ItemsOf(c)[1].kind = "dict"
        /\ "namespace" \in ItemsOf(c)[1].has
        /\ ItemsOf(c)[1].namespace = "default"
        /\ NoNamespace(ItemsOf(c)[2])
        /\ calls[c].pc = "done"
        /\ calls[c].out.raised =
              Raise("ValueError", "items: each dict must include 'namespace'")
        /\ SentBy(c) = 0

\* A map the normalizer has to refuse: a required key is missing, or a
\* timestamp it carries is not a number or breaks the timestamp rule
InvalidMap(item, now) ==
    /\ item.kind = "dict"
    /\ LET created == Supplied(item, "createdAt", "created_at")
           updated == Supplied(item, "updatedAt", "updated_at")
       IN  \/ {"key", "content", "namespace"} \ item.has # {}
           \/ created.tag = "str"
           \/ updated.tag = "str"
           \/ ~TimestampsValid(created, updated, now)

Refused(item, now) ==
    item.kind \notin {"MemoryItem", "dict"} \/ InvalidMap(item, now)

ContextOf(c) ==
    IF strip(calls[c].a.context) # "" THEN calls[c].a.context
    ELSE GetContextResponse(
             Slice(ReadItems(calls[c].resps[1].body.payload.data.items),
                   calls[c].a.num_chunks)).context

\* The credentials among the headers of a request
Credentials(r) ==
    { h \in r.headers : h[1] \in {"Authorization", "x-api-key", "X-Model-Id"} }

\* C23: the memory-service token never reaches an LLM provider: the request
\* recall_with_llm sends to the provider carries the provider api_key as its
\* only credential and none of the headers of the client's transport, and it
\* is determined by the arguments and the context alone, so that runs that
\* differ only in token and model id send the same provider request.
C23_TokenNotSentToProvider ==
    \A c \in Slots :
        calls[c].op = "recall_with_llm"
        => \A i \in 1..NReq(c) :
              LET r == calls[c].reqs[i]
                  key == strip(calls[c].a.api_key)
              IN  r.via = "llm"
                  => /\ r.headers \cap client.headers = {}
                     /\ Credentials(r) \subseteq
                           {<<"Authorization", "Bearer " \o key>>, <<"x-api-key", key>>}
                     /\ r = llm_recall_with_llm(calls[c].a, ContextOf(c)).req

\* On the client with token T2 the recall carried the token to the memory
\* service, the provider request that followed carried the api key only
C23_Witness ==
    \E c \in Slots :
        /\ calls[c].op = "recall_with_llm"
        /\ calls[c].pc = "done"
        /\ NReq(c) = 2
        /\ <<"Authorization", "Bearer T2">> \in calls[c].reqs[1].headers
        /\ calls[c].reqs[2].via = "llm"
        /\ calls[c].reqs[2].headers = {<<"Authorization", "Bearer sk">>}
        /\ calls[c].out.value = [text |-> "hi"]

====
